---------------------------- MODULE Spec2Model ----------------------------
(***************************************************************************)
(* Model of the faculty course allotment engine (algo.py).                 *)
(*                                                                         *)
(* Representation choices:                                                 *)
(*  - A Python dict is a TLA+ function whose DOMAIN is the set of keys     *)
(*    present.  A missing key is a key outside the DOMAIN.                 *)
(*  - Course dicts and expanded section dicts are mutable objects: they    *)
(*    live in `heap`, a sequence of dicts, and are referred to by their    *)
(*    index (a reference).  Lists of courses are sequences of references.  *)
(*  - Python list and matrix indices are 0-based; here rows, columns and   *)
(*    list positions are 1-based (index k of the code is k+1 here).        *)
(*  - faculty['timestamp'] is a real in [0,1].  It is represented by its   *)
(*    numerator over the denominator TsDen, and every cost is represented  *)
(*    by TsDen times its value, so that all costs are exact integers.      *)
(*    Floating point rounding is not modelled.                             *)
(***************************************************************************)
EXTENDS Integers, Sequences, FiniteSets, TLC

(***************************************************************************)
(* Bounds of the model.                                                    *)
(***************************************************************************)
MaxFaculty == 2
MaxSections == 2
MaxRuns == 2
MaxCells == 9
TsDen == 2

VARIABLES
    pc,                   \* the call the caller makes next, or "done"
    heap,                 \* the dict objects (courses and expanded sections)
    faculties,            \* the caller's faculties list (sequence of records)
    courses,              \* the caller's courses list (sequence of references)
    weights, limits,      \* the configuration dicts in force
    expanded_courses,     \* run_allotment's local: references of the sections
    cost_matrix,          \* F x S matrix, cell = TsDen * cost
    cells_computed,       \* number of compute_cost calls that returned
    allocation,           \* allocate_courses: sequence of <<row, column>>
    unassigned,           \* allocate_courses: sequence of column indices
    outcome,              \* "none" | "returned" | "KeyError"
    results               \* what the caller received from each completed run

vars == <<pc, heap, faculties, courses, weights, limits, expanded_courses,
          cost_matrix, cells_computed, allocation, unassigned, outcome, results>>

(***************************************************************************)
(* Python dict primitives.                                                 *)
(***************************************************************************)
\* d.get(k, default)
DictGet(d, k, default) == IF k \in DOMAIN d THEN d[k] ELSE default

\* d[k] = v
DictSet(d, k, v) == [x \in (DOMAIN d) \cup {k} |-> IF x = k THEN v ELSE d[x]]

\* heap[ref][k] = v
SetItem(h, ref, k, v) == [h EXCEPT ![ref] = DictSet(h[ref], k, v)]

\* A faulty copy that returns the very same object (aliasing).
DictAlias(h, ref) == [heap |-> h, ref |-> ref]

\* course.copy(): a new object with the same keys and values.
DictCopy(h, ref) == [heap |-> Append(h, h[ref]), ref |-> Len(h) + 1]

\* A label that leaves the section index out.
SectionLabel_no_index(original_code, sec) == original_code \o "-S"

\* f"{original_code}-S{sec}"
SectionLabel(original_code, sec) == original_code \o "-S" \o ToString(sec)

(***************************************************************************)
(* expand_courses                                                          *)
(***************************************************************************)
\* The body of the inner loop on the fresh copy: the three item assignments.
FillSection(c, original_code, sec) ==
    SetItem(SetItem(SetItem(c.heap, c.ref, "course_code", original_code),
                    c.ref, "code", SectionLabel(original_code, sec)),
            c.ref, "section", sec)

\* expanded.append(section_entry)
AppendSection(st, c, original_code, sec) ==
    [st EXCEPT !.heap = FillSection(c, original_code, sec),
               !.expanded = Append(st.expanded, c.ref)]

RECURSIVE SectionLoop(_, _, _, _, _)
SectionLoop(st, course, original_code, sec, num_sections) ==
    IF sec > num_sections THEN st
    ELSE SectionLoop(AppendSection(st, DictCopy(st.heap, course), original_code, sec),
                     course, original_code, sec + 1, num_sections)

RECURSIVE CourseLoop(_, _, _)
CourseLoop(st, crs, k) ==
    IF k > Len(crs) THEN st
    ELSE IF "code" \notin DOMAIN st.heap[crs[k]]
    THEN [st EXCEPT !.raised = "KeyError"]
    ELSE CourseLoop(SectionLoop(st, crs[k], st.heap[crs[k]]["code"], 1,
                                DictGet(st.heap[crs[k]], "sections", 1)),
                    crs, k + 1)

\* Returns the heap after the call, the list of section references, and the
\* exception raised ("none" when the call returns).
expand_courses(h, crs) ==
    CourseLoop([heap |-> h, expanded |-> <<>>, raised |-> "none"], crs, 1)

(***************************************************************************)
(* compute_cost.  The components carry the code's values; the total is     *)
(* TsDen times the code's total_cost.                                      *)
(***************************************************************************)
pref_cost_rank3_as_other(faculty, course) ==
    LET course_code == course["course_code"]
    IN  IF course_code \notin DOMAIN faculty.preferences THEN 100
        ELSE LET pref == faculty.preferences[course_code]
             IN  IF pref = 1 THEN 0
                 ELSE IF pref = 2 THEN 10
                 ELSE 30

pref_cost(faculty, course) ==
    LET course_code == course["course_code"]
    IN  IF course_code \notin DOMAIN faculty.preferences THEN 100
        ELSE LET pref == faculty.preferences[course_code]
             IN  IF pref = 1 THEN 0
                 ELSE IF pref = 2 THEN 10
                 ELSE IF pref = 3 THEN 20
                 ELSE 30

workload_cost(faculty, course, w, l) ==
    LET overall_penalty == w.overall * (l.max_courses - faculty.courses_left)
        ug_penalty      == IF course["type"] = "UG"
                           THEN w.ug * (l.max_ug - faculty.ug_left)
                           ELSE 0
    IN  overall_penalty + ug_penalty

semester_cost_strict(faculty, course, l) ==
    IF course["type"] = "UG"
    THEN IF faculty.current_semester_ug > l.ug_semester THEN 1000 ELSE 0
    ELSE IF course["type"] = "PG"
    THEN IF faculty.current_semester_pg > l.pg_semester THEN 1000 ELSE 0
    ELSE 0

semester_cost(faculty, course, l) ==
    IF course["type"] = "UG"
    THEN IF faculty.current_semester_ug >= l.ug_semester THEN 1000 ELSE 0
    ELSE IF course["type"] = "PG"
    THEN IF faculty.current_semester_pg >= l.pg_semester THEN 1000 ELSE 0
    ELSE 0

history_cost(faculty, course, w) ==
    w.history * DictGet(faculty.history, course["course_code"], 0)

\* TsDen * weights['timestamp'] * timestamp, timestamp = faculty.timestamp / TsDen
timestamp_cost(faculty, course, w) ==
    IF course["type"] = "UG" THEN w.timestamp * faculty.timestamp
    ELSE IF course["type"] = "PG" THEN w.timestamp * (TsDen - faculty.timestamp)
    ELSE 0

\* course['type'] raises KeyError when the key is missing (line 39).
compute_cost_raises(course) == "type" \notin DOMAIN course

\* A total that leaves the preference cost out.
compute_cost_without_preference(faculty, course, w, l) ==
    TsDen * (workload_cost(faculty, course, w, l)
             + semester_cost(faculty, course, l) + history_cost(faculty, course, w))
    + timestamp_cost(faculty, course, w)

compute_cost(faculty, course, w, l) ==
    TsDen * (pref_cost(faculty, course) + workload_cost(faculty, course, w, l)
             + semester_cost(faculty, course, l) + history_cost(faculty, course, w))
    + timestamp_cost(faculty, course, w)

(***************************************************************************)
(* build_cost_matrix: cells are filled in row-major order; the first cell  *)
(* whose compute_cost raises ends the loop.                                *)
(***************************************************************************)
\* np.zeros((nrows, ncols)): a matrix is its shape and its cells.
zeros(nrows, ncols) ==
    [nrows |-> nrows, ncols |-> ncols,
     data |-> [i \in 1..nrows |-> [j \in 1..ncols |-> 0]]]

\* Cell n (row-major) of an F x S matrix.
RowOf(n, S) == ((n - 1) \div S) + 1
ColOf(n, S) == ((n - 1) % S) + 1

\* cost_matrix[i, j] = compute_cost(faculty, course, weights, limits)
FillCell(st, i, j, faculty, course, w, l) ==
    IF compute_cost_raises(course) THEN [st EXCEPT !.raised = "KeyError"]
    ELSE [st EXCEPT !.matrix.data[i][j] = compute_cost(faculty, course, w, l),
                    !.cells = st.cells + 1]

RECURSIVE CellLoop(_, _, _, _, _, _, _)
CellLoop(st, h, facs, expanded, w, l, n) ==
    IF Len(expanded) = 0 \/ n > Len(facs) * Len(expanded) \/ st.raised # "none"
    THEN st
    ELSE CellLoop(FillCell(st, RowOf(n, Len(expanded)), ColOf(n, Len(expanded)),
                           facs[RowOf(n, Len(expanded))],
                           h[expanded[ColOf(n, Len(expanded))]], w, l),
                  h, facs, expanded, w, l, n + 1)

build_cost_matrix(h, facs, expanded, w, l) ==
    CellLoop([matrix |-> zeros(Len(facs), Len(expanded)),
              cells |-> 0, raised |-> "none"],
             h, facs, expanded, w, l, 1)

(***************************************************************************)
(* scipy.optimize.linear_sum_assignment: the shortest augmenting path      *)
(* algorithm for the rectangular assignment problem (dual variables u, v;  *)
(* one augmenting path per row; a tall matrix is transposed first).        *)
(* -1 ("no row/column") of the library is 0 here; INFINITY in              *)
(* shortestPathCosts is a column missing from the DOMAIN of spc.           *)
(***************************************************************************)
RECURSIVE SortedSeq(_)
SortedSeq(S) ==
    IF S = {} THEN <<>>
    ELSE LET m == CHOOSE x \in S : \A y \in S : x <= y
         IN  <<m>> \o SortedSeq(S \ {m})

\* if (r < shortestPathCosts[j]) { path[j] = i; shortestPathCosts[j] = r; }
Relax(s, j, r, i) ==
    IF j \notin DOMAIN s.spc \/ r < s.spc[j]
    THEN [s EXCEPT !.spc = DictSet(s.spc, j, r), !.path[j] = i]
    ELSE s

\* Keep the column of lowest shortest-path cost, preferring on a tie a
\* column that is still unassigned (free).
Select(s, j, it, free) ==
    IF \/ s.index = 0
       \/ s.spc[j] < s.lowest
       \/ (s.spc[j] = s.lowest /\ free)
    THEN [s EXCEPT !.lowest = s.spc[j], !.index = it]
    ELSE s

\* The for loop over the remaining columns, from row i.
RECURSIVE ScanRemaining(_, _, _, _, _, _, _, _)
ScanRemaining(s, cost, u, v, row4col, i, minVal, it) ==
    IF it > s.num_remaining THEN s
    ELSE ScanRemaining(
             Select(Relax(s, s.remaining[it],
                          minVal + cost[i][s.remaining[it]] - u[i]
                              - v[s.remaining[it]],
                          i),
                    s.remaining[it], it, row4col[s.remaining[it]] = 0),
             cost, u, v, row4col, i, minVal, it + 1)

\* The while loop of augmenting_path: grow the alternating tree until an
\* unassigned column (the sink) is reached.
RECURSIVE FindSink(_, _, _, _, _, _, _)
RECURSIVE Visit(_, _, _, _, _, _, _)
Visit(s, j, cost, u, v, row4col, i) ==
    IF row4col[j] = 0
    THEN [sink |-> j, minVal |-> s.lowest, path |-> s.path, spc |-> s.spc,
          SR |-> s.SR \cup {i}, SC |-> s.SC \cup {j}]
    ELSE FindSink([s EXCEPT !.SR = @ \cup {i}, !.SC = @ \cup {j},
                            !.remaining[s.index] = s.remaining[s.num_remaining],
                            !.num_remaining = @ - 1],
                  cost, u, v, row4col, row4col[j], s.lowest)

Scanned(s, cost, u, v, row4col, i) ==
    Visit(s, s.remaining[s.index], cost, u, v, row4col, i)

FindSink(s, cost, u, v, row4col, i, minVal) ==
    Scanned(ScanRemaining([s EXCEPT !.lowest = 0, !.index = 0],
                          cost, u, v, row4col, i, minVal, 1),
            cost, u, v, row4col, i)

augmenting_path(nc, cost, u, v, path, row4col, i) ==
    FindSink([path |-> path, spc |-> <<>>, SR |-> {}, SC |-> {},
              remaining |-> [it \in 1..nc |-> nc - it + 1],
              num_remaining |-> nc, lowest |-> 0, index |-> 0],
             cost, u, v, row4col, i, 0)

\* "augment previous solution": flip the assignments along the path.
RECURSIVE Augment(_, _, _, _)
Augment(m, path, j, curRow) ==
    IF path[j] = curRow
    THEN [m EXCEPT !.col4row[path[j]] = j, !.row4col[j] = path[j]]
    ELSE Augment([m EXCEPT !.col4row[path[j]] = j, !.row4col[j] = path[j]],
                 path, m.col4row[path[j]], curRow)

\* "update dual variables", then augment.
UpdateDuals(s, ap, curRow) ==
    [s EXCEPT !.u = [i \in DOMAIN s.u |->
                        IF i = curRow THEN s.u[i] + ap.minVal
                        ELSE IF i \in ap.SR
                             THEN s.u[i] + ap.minVal - ap.spc[s.col4row[i]]
                             ELSE s.u[i]],
              !.v = [j \in DOMAIN s.v |->
                        IF j \in ap.SC THEN s.v[j] - (ap.minVal - ap.spc[j])
                        ELSE s.v[j]],
              !.path = ap.path]

AugmentRow(s, ap, curRow) ==
    Augment(UpdateDuals(s, ap, curRow), ap.path, ap.sink, curRow)

RECURSIVE RowLoop(_, _, _, _, _)
RowLoop(s, cost, nr, nc, curRow) ==
    IF curRow > nr THEN s
    ELSE RowLoop(AugmentRow(s, augmenting_path(nc, cost, s.u, s.v, s.path,
                                               s.row4col, curRow),
                            curRow),
                 cost, nr, nc, curRow + 1)

\* solve() on an nr x nc matrix with nr <= nc.
solve(nr, nc, cost) ==
    RowLoop([u |-> [i \in 1..nr |-> 0], v |-> [j \in 1..nc |-> 0],
             path |-> [j \in 1..nc |-> 0],
             col4row |-> [i \in 1..nr |-> 0], row4col |-> [j \in 1..nc |-> 0]],
            cost, nr, nc, 1)

\* A greedy assignment: every row in turn takes its cheapest free column.
RECURSIVE GreedyRows(_, _, _, _)
GreedyRows(cm, i, used, acc) ==
    IF i > cm.nrows \/ used = 1..cm.ncols THEN acc
    ELSE LET free == (1..cm.ncols) \ used
             j == CHOOSE c \in free :
                    \A d \in free : \/ cm.data[i][c] < cm.data[i][d]
                                    \/ (cm.data[i][c] = cm.data[i][d] /\ c <= d)
         IN  GreedyRows(cm, i + 1, used \cup {j},
                        [row_ind |-> Append(acc.row_ind, i),
                         col_ind |-> Append(acc.col_ind, j)])

linear_sum_assignment_greedy(cm) ==
    GreedyRows(cm, 1, {}, [row_ind |-> <<>>, col_ind |-> <<>>])

\* The output of a transposed problem: the assigned rows in ascending
\* order, each with its column.
PairUp(rows, row4col) ==
    [row_ind |-> rows, col_ind |-> [k \in 1..Len(rows) |-> row4col[rows[k]]]]

TransposedResult(r) ==
    PairUp(SortedSeq({i \in DOMAIN r.row4col : r.row4col[i] # 0}), r.row4col)

DirectResult(r) ==
    [row_ind |-> [i \in DOMAIN r.col4row |-> i], col_ind |-> r.col4row]

Transpose(cm) == [j \in 1..cm.ncols |-> [i \in 1..cm.nrows |-> cm.data[i][j]]]

\* Returns row_ind (ascending) and col_ind.
linear_sum_assignment(cm) ==
    IF cm.nrows = 0 \/ cm.ncols = 0 THEN [row_ind |-> <<>>, col_ind |-> <<>>]
    ELSE IF cm.ncols < cm.nrows
    THEN TransposedResult(solve(cm.ncols, cm.nrows, Transpose(cm)))
    ELSE DirectResult(solve(cm.nrows, cm.ncols, cm.data))

(***************************************************************************)
(* allocate_courses                                                        *)
(***************************************************************************)
SeqRange(s) == {s[k] : k \in 1..Len(s)}

\* The unassigned list computed from the wrong side: the unmatched rows.
unassigned_sections_of_rows(cm, row_ind, col_ind) ==
    SortedSeq((1..cm.nrows) \ SeqRange(row_ind))

\* list(total_sections - assigned_sections); a set of small ints is listed
\* in ascending order.
unassigned_sections(cm, row_ind, col_ind) ==
    SortedSeq((1..cm.ncols) \ SeqRange(col_ind))

\* allocation = list(zip(row_ind, col_ind)), and the unassigned columns.
Classify(cm, lsa) ==
    [allocation |-> [k \in 1..Len(lsa.row_ind) |-> <<lsa.row_ind[k], lsa.col_ind[k]>>],
     unassigned |-> unassigned_sections(cm, lsa.row_ind, lsa.col_ind)]

allocate_courses(cm) == Classify(cm, linear_sum_assignment(cm))

(***************************************************************************)
(* run_allotment                                                           *)
(***************************************************************************)
DefaultWeights == [overall |-> 1, ug |-> 1, history |-> 5, timestamp |-> 10]

DefaultLimits == [max_courses |-> 5, max_ug |-> 2, ug_semester |-> 1,
                  pg_semester |-> 2]

\* The loop with the base course code stored in place of the section label.
RECURSIVE AllocationsLoop_course_code(_, _, _, _, _, _)
AllocationsLoop_course_code(d, h, facs, expanded, al, k) ==
    IF k > Len(al) THEN d
    ELSE AllocationsLoop_course_code(DictSet(d, facs[al[k][1]].name,
                                             h[expanded[al[k][2]]]["course_code"]),
                                     h, facs, expanded, al, k + 1)

\* The loop filling the allocations dict: a later pair with the same
\* faculty name overwrites an earlier one.
RECURSIVE AllocationsLoop(_, _, _, _, _, _)
AllocationsLoop(d, h, facs, expanded, al, k) ==
    IF k > Len(al) THEN d
    ELSE AllocationsLoop(DictSet(d, facs[al[k][1]].name,
                                 h[expanded[al[k][2]]]["code"]),
                         h, facs, expanded, al, k + 1)

\* An exception leaves run_allotment: nothing is returned.
Raised(h, expanded, cells) ==
    [outcome |-> "KeyError", heap |-> h, expanded_courses |-> expanded,
     cost_matrix |-> zeros(0, 0), cells_computed |-> cells,
     allocation |-> <<>>, unassigned |-> <<>>,
     allocations |-> <<>>, unallotted_sections |-> <<>>]

\* Lines 164-183: resolve the indices to faculty names and section labels.
Resolve(ex, bm, ac, facs) ==
    [outcome |-> "returned", heap |-> ex.heap,
     expanded_courses |-> ex.expanded, cost_matrix |-> bm.matrix,
     cells_computed |-> bm.cells, allocation |-> ac.allocation,
     unassigned |-> ac.unassigned,
     allocations |-> AllocationsLoop(<<>>, ex.heap, facs, ex.expanded,
                                     ac.allocation, 1),
     unallotted_sections |->
         [k \in 1..Len(ac.unassigned) |->
             ex.heap[ex.expanded[ac.unassigned[k]]]["code"]]]

AfterMatrix(ex, bm, facs) ==
    IF bm.raised # "none" THEN Raised(ex.heap, ex.expanded, bm.cells)
    ELSE Resolve(ex, bm, allocate_courses(bm.matrix), facs)

AfterExpand(ex, facs) ==
    IF ex.raised # "none" THEN Raised(ex.heap, <<>>, 0)
    ELSE AfterMatrix(ex, build_cost_matrix(ex.heap, facs, ex.expanded,
                                           DefaultWeights, DefaultLimits),
                     facs)

run_allotment(h, facs, crs) == AfterExpand(expand_courses(h, crs), facs)

(***************************************************************************)
(* Inputs.                                                                 *)
(***************************************************************************)
Codes == {"C1", "C2"}

Faculty(name, preferences, courses_left, ug_left, sem_ug, sem_pg, history, ts) ==
    [name |-> name, preferences |-> preferences, courses_left |-> courses_left,
     ug_left |-> ug_left, current_semester_ug |-> sem_ug,
     current_semester_pg |-> sem_pg, history |-> history, timestamp |-> ts]

\* Course requirement dicts: well formed (sections absent or 1..MaxSections)
\* and malformed (sections 0 or negative, type missing, code missing).
CourseDicts ==
    {[code |-> c, type |-> t] : c \in Codes, t \in {"UG", "PG"}}
    \cup {[code |-> c, type |-> t, sections |-> n] :
            c \in Codes, t \in {"UG", "PG"}, n \in 1..MaxSections}
    \cup {[code |-> c, type |-> "UG", sections |-> n] : c \in Codes, n \in {0, -1}}
    \cup {[code |-> c, sections |-> 1] : c \in Codes}
    \cup {[type |-> "UG", sections |-> 1]}

\* Course lists of up to as many requirements as there are codes; two
\* requirements may carry the same code.
CourseLists == UNION {[1..n -> CourseDicts] : n \in 0..Cardinality(Codes)}

\* Faculty records for the runs; the last one has a negative quota.
RunProfiles ==
    {Faculty("", ("C1" :> 1) @@ ("C2" :> 2), 5, 2, 0, 0, <<>>, 0),
     Faculty("", <<>>, 5, 2, 1, 0, <<>>, 1),
     Faculty("", "C2" :> 1, 3, 1, 0, 2, "C2" :> 1, TsDen),
     Faculty("", "C1" :> 2, -1, 2, 0, 0, "C1" :> 1, 0)}

NameOf(i) == "F" \o ToString(i)

\* Faculty lists: unique names, or (dup) the second faculty shares the
\* first one's name.
FacultyLists ==
    {[i \in 1..n |-> [prof[i] EXCEPT !.name = IF dup /\ i = 2 THEN NameOf(1)
                                               ELSE NameOf(i)]] :
        n \in 0..MaxFaculty, prof \in [1..MaxFaculty -> RunProfiles],
        dup \in BOOLEAN}

NoCall == /\ expanded_courses = <<>>
          /\ cost_matrix = zeros(0, 0)
          /\ cells_computed = 0
          /\ allocation = <<>>
          /\ unassigned = <<>>
          /\ outcome = "none"
          /\ results = <<>>

\* A caller holding a faculties list and a courses list.
Init ==
    /\ pc = "run_allotment"
    /\ faculties \in FacultyLists
    /\ heap \in CourseLists
    /\ courses = [k \in 1..Len(heap) |-> k]
    /\ weights = DefaultWeights
    /\ limits = DefaultLimits
    /\ NoCall

\* The scenarios of two faculty and one single-section course.
ScenarioProfiles ==
    {Faculty("", p, q[1], q[2], su, sp, h, ts) :
        p \in {<<>>, "C1" :> 1}, q \in {<<5, 2>>, <<0, 0>>, <<7, 3>>},
        su \in {0, 1, 2}, sp \in {0, 2}, h \in {<<>>, "C1" :> 2, "C1" :> 20},
        ts \in {0, TsDen}}

InitScenario ==
    /\ pc = "run_allotment"
    /\ \E a, b \in ScenarioProfiles :
          faculties = <<[a EXCEPT !.name = "A"], [b EXCEPT !.name = "B"]>>
    /\ \E t \in {"UG", "PG"} : heap = <<[code |-> "C1", type |-> t, sections |-> 1]>>
    /\ courses = <<1>>
    /\ weights = DefaultWeights
    /\ limits = DefaultLimits
    /\ NoCall

\* compute_cost over two faculty that differ only in their preference entry
\* for the section's course, under several configurations.
PrefEntries == {<<>>} \cup {"C1" :> r : r \in {1, 2, 3, 4, 6}}

CostProfiles ==
    {Faculty("", <<>>, cl, ul, su, sp, h, ts) :
        cl \in {0, 5, 7}, ul \in {2, 3}, su \in {0, 1, 2}, sp \in {1, 2},
        h \in {<<>>, "C1" :> 3}, ts \in {0, 1, TsDen}}

WeightConfigs == {DefaultWeights,
                  [overall |-> 0, ug |-> 0, history |-> 0, timestamp |-> 0],
                  [overall |-> 2, ug |-> 3, history |-> 1, timestamp |-> 4]}

LimitConfigs == {DefaultLimits,
                 [max_courses |-> 3, max_ug |-> 1, ug_semester |-> 2,
                  pg_semester |-> 1]}

InitCost ==
    /\ pc = "build_cost_matrix"
    /\ \E f \in CostProfiles, p1, p2 \in PrefEntries :
          faculties = <<[f EXCEPT !.name = "A", !.preferences = p1],
                        [f EXCEPT !.name = "B", !.preferences = p2]>>
    /\ \E t \in {"UG", "PG", "LAB"} :
          heap = <<[code |-> "C1-S1", course_code |-> "C1", type |-> t,
                    sections |-> 1, section |-> 1]>>
    /\ courses = <<>>
    /\ weights \in WeightConfigs
    /\ limits \in LimitConfigs
    /\ expanded_courses = <<1>>
    /\ cost_matrix = zeros(0, 0)
    /\ cells_computed = 0
    /\ allocation = <<>>
    /\ unassigned = <<>>
    /\ outcome = "none"
    /\ results = <<>>

\* allocate_courses over arbitrary small cost matrices.
CostValues == {-1, 0, 2}

Shapes == {sh \in (1..MaxCells) \X (1..MaxCells) : sh[1] * sh[2] <= MaxCells}

InitAlloc ==
    /\ pc = "allocate_courses"
    /\ \E sh \in Shapes : \E d \in [1..sh[1] -> [1..sh[2] -> CostValues]] :
          cost_matrix = [nrows |-> sh[1], ncols |-> sh[2], data |-> d]
    /\ faculties = <<>>
    /\ heap = <<>>
    /\ courses = <<>>
    /\ weights = DefaultWeights
    /\ limits = DefaultLimits
    /\ expanded_courses = <<>>
    /\ cells_computed = 0
    /\ allocation = <<>>
    /\ unassigned = <<>>
    /\ outcome = "none"
    /\ results = <<>>

(***************************************************************************)
(* Actions: one per call the caller makes.                                 *)
(***************************************************************************)
\* The state after a call of run_allotment that ended as r.
Deliver(r) ==
    /\ heap' = r.heap
    /\ expanded_courses' = r.expanded_courses
    /\ cost_matrix' = r.cost_matrix
    /\ cells_computed' = r.cells_computed
    /\ allocation' = r.allocation
    /\ unassigned' = r.unassigned
    /\ outcome' = r.outcome
    /\ results' = IF r.outcome = "returned"
                  THEN Append(results,
                              [allocations |-> r.allocations,
                               unallotted_sections |-> r.unallotted_sections,
                               sections |-> [k \in 1..Len(r.expanded_courses) |->
                                               r.heap[r.expanded_courses[k]]]])
                  ELSE results
    /\ pc' = IF r.outcome = "returned" /\ Len(results) + 1 < MaxRuns
             THEN "run_allotment" ELSE "done"

\* allocations, unallotted_sections = run_allotment(faculties, courses);
\* the caller may call again on the same lists.
RunAllotment ==
    /\ pc = "run_allotment"
    /\ Deliver(run_allotment(heap, faculties, courses))
    /\ UNCHANGED <<faculties, courses, weights, limits>>

\* The state after a call of build_cost_matrix that ended as bm.
DeliverMatrix(bm) ==
    /\ cost_matrix' = bm.matrix
    /\ cells_computed' = bm.cells
    /\ outcome' = IF bm.raised = "none" THEN "returned" ELSE bm.raised

\* cost_matrix = build_cost_matrix(faculties, expanded_courses, weights, limits)
BuildCostMatrix ==
    /\ pc = "build_cost_matrix"
    /\ DeliverMatrix(build_cost_matrix(heap, faculties, expanded_courses,
                                       weights, limits))
    /\ pc' = "done"
    /\ UNCHANGED <<heap, faculties, courses, weights, limits, expanded_courses,
                   allocation, unassigned, results>>

\* The state after allocate_courses returned ac.
DeliverAllocation(ac) ==
    /\ allocation' = ac.allocation
    /\ unassigned' = ac.unassigned

\* allocation, unassigned = allocate_courses(cost_matrix)
AllocateCourses ==
    /\ pc = "allocate_courses"
    /\ DeliverAllocation(allocate_courses(cost_matrix))
    /\ outcome' = "returned"
    /\ pc' = "done"
    /\ UNCHANGED <<heap, faculties, courses, weights, limits, expanded_courses,
                   cost_matrix, cells_computed, results>>

Next == RunAllotment

Spec == Init /\ [][Next]_vars

SpecScenario == InitScenario /\ [][Next]_vars

NextCost == BuildCostMatrix

SpecCost == InitCost /\ [][NextCost]_vars

NextAlloc == AllocateCourses

SpecAlloc == InitAlloc /\ [][NextAlloc]_vars

(***************************************************************************)
(* Definitions used to state the properties.                               *)
(***************************************************************************)
Min(a, b) == IF a < b THEN a ELSE b

NumFaculty == Len(faculties)

NumSectionsExpanded == Len(expanded_courses)

UniqueNames ==
    \A i, j \in DOMAIN faculties : i # j => faculties[i].name # faculties[j].name

UniqueCodes ==
    \A a, b \in DOMAIN courses :
        (a # b /\ "code" \in DOMAIN heap[courses[a]]
               /\ "code" \in DOMAIN heap[courses[b]])
            => heap[courses[a]]["code"] # heap[courses[b]]["code"]

LastResult == results[Len(results)]

\* The label of the k-th expanded section.
LabelAt(k) == heap[expanded_courses[k]]["code"]

AllocRows == {allocation[k][1] : k \in DOMAIN allocation}

AllocCols == {allocation[k][2] : k \in DOMAIN allocation}

RECURSIVE SumCost(_, _, _)
SumCost(cm, al, k) ==
    IF k = 0 THEN 0 ELSE cm.data[al[k][1]][al[k][2]] + SumCost(cm, al, k - 1)

TotalCost(cm, al) == SumCost(cm, al, Len(al))

\* The least total over all assignments of rows i..nr of c to distinct
\* columns outside `used` (exhaustive enumeration; nr <= nc).
RECURSIVE BestFrom(_, _, _, _, _)
BestFrom(c, nr, nc, i, used) ==
    IF i > nr THEN 0
    ELSE LET opts == {c[i][j] + BestFrom(c, nr, nc, i + 1, used \cup {j}) :
                         j \in (1..nc) \ used}
         IN  CHOOSE x \in opts : \A y \in opts : x <= y

\* The minimum total cost over all matchings of min(F,S) pairs.
MinMatchingCost(cm) ==
    IF cm.nrows = 0 \/ cm.ncols = 0 THEN 0
    ELSE IF cm.ncols < cm.nrows
    THEN BestFrom(Transpose(cm), cm.ncols, cm.nrows, 1, {})
    ELSE BestFrom(cm.data, cm.nrows, cm.ncols, 1, {})

\* The section count a course requirement asks for.
Requested(d) == IF "sections" \in DOMAIN d THEN d["sections"] ELSE 1

\* The number of entries range(1, sections + 1) runs through.
Expands(d) == IF Requested(d) > 0 THEN Requested(d) ELSE 0

\* The number of expanded sections that precede those of the c-th course.
RECURSIVE Offset(_)
Offset(c) == IF c = 1 THEN 0 ELSE Offset(c - 1) + Expands(heap[courses[c - 1]])

WellFormedCourses ==
    /\ UniqueCodes
    /\ \A c \in DOMAIN courses :
          /\ "code" \in DOMAIN heap[courses[c]]
          /\ Requested(heap[courses[c]]) >= 1

Malformed ==
    \/ \E c \in DOMAIN courses :
          \/ "code" \notin DOMAIN heap[courses[c]]
          \/ "type" \notin DOMAIN heap[courses[c]]
          \/ Requested(heap[courses[c]]) < 1
    \/ \E i \in DOMAIN faculties :
          faculties[i].courses_left < 0 \/ faculties[i].ug_left < 0

\* The preference cost table of the specification.
PrefTable(prefs, code) ==
    IF code \notin DOMAIN prefs THEN 100
    ELSE IF prefs[code] = 1 THEN 0
    ELSE IF prefs[code] = 2 THEN 10
    ELSE IF prefs[code] = 3 THEN 20
    ELSE 30

\* Whether faculty f is at or above the semester limit for a course type.
AtLimit(f, type) ==
    \/ (type = "UG" /\ f.current_semester_ug >= limits.ug_semester)
    \/ (type = "PG" /\ f.current_semester_pg >= limits.pg_semester)

\* TsDen times the sum of the four components other than the semester cost.
OtherFour(f, section) ==
    TsDen * (pref_cost(f, section) + workload_cost(f, section, weights, limits)
             + history_cost(f, section, weights))
    + timestamp_cost(f, section, weights)

\* The statement of C2 about a returned run.
C2_Body ==
    /\ Cardinality(AllocRows) = Len(allocation)
    /\ \A n, m \in DOMAIN LastResult.allocations :
          n # m => LastResult.allocations[n] # LastResult.allocations[m]
    /\ Cardinality(DOMAIN LastResult.allocations)
           = Min(NumFaculty, NumSectionsExpanded)
    /\ (NumFaculty = 1 /\ Len(courses) = 1 /\ NumSectionsExpanded = 2) =>
          /\ Cardinality(DOMAIN LastResult.allocations) = 1
          /\ Len(LastResult.unallotted_sections) = 1
          /\ LastResult.unallotted_sections[1]
                 # LastResult.allocations[faculties[1].name]

\* The statements of C3 about the column indices and about the labels.
C3_Indices ==
    /\ AllocCols \cap SeqRange(unassigned) = {}
    /\ AllocCols \cup SeqRange(unassigned) = 1..NumSectionsExpanded
    /\ Cardinality(SeqRange(unassigned)) = Len(unassigned)

C3_Labels ==
    \A k \in 1..NumSectionsExpanded :
        Cardinality({n \in DOMAIN LastResult.allocations :
                        LastResult.allocations[n] = LabelAt(k)})
        + Cardinality({u \in DOMAIN LastResult.unallotted_sections :
                        LastResult.unallotted_sections[u] = LabelAt(k)})
        = 1

\* The scenario of C7: A ranks the course first with full quota, B has no
\* entry for it.
C7_Scenario ==
    faculties[1].preferences = ("C1" :> 1)
    /\ faculties[1].courses_left = limits.max_courses
    /\ faculties[1].ug_left = limits.max_ug
    /\ faculties[2].preferences = <<>>

\* The statements of C10: a step leaves the inputs alone; the results of the
\* runs agree and every section keeps its own fields.
C10_InputsUnchanged ==
    /\ faculties' = faculties
    /\ courses' = courses
    /\ \A c \in DOMAIN courses : heap'[courses[c]] = heap[courses[c]]

C10_RunsAgree ==
    /\ \A r \in DOMAIN results :
          \A c \in DOMAIN courses : \A i \in 1..Expands(heap[courses[c]]) :
              /\ results[r].sections[Offset(c) + i]["section"] = i
              /\ results[r].sections[Offset(c) + i]["code"]
                     = heap[courses[c]]["code"] \o "-S" \o ToString(i)
    /\ Len(results) >= 2 =>
          /\ results[1].allocations = results[2].allocations
          /\ results[1].unallotted_sections = results[2].unallotted_sections

(***************************************************************************)
(* C1: the pairs returned by allocate_courses form a matching of           *)
(* min(F,S) pairs (each row at most once, each column at most once) whose  *)
(* total cost is the minimum over all such matchings.                      *)
(***************************************************************************)
C1_GlobalMinimum ==
    outcome = "returned" =>
        /\ Len(allocation) = Min(cost_matrix.nrows, cost_matrix.ncols)
        /\ Cardinality(AllocRows) = Len(allocation)
        /\ Cardinality(AllocCols) = Len(allocation)
        /\ AllocRows \subseteq 1..cost_matrix.nrows
        /\ AllocCols \subseteq 1..cost_matrix.ncols
        /\ TotalCost(cost_matrix, allocation) = MinMatchingCost(cost_matrix)

\* A 3 x 3 matrix on which taking each row's cheapest free column in turn
\* costs strictly more than the returned matching.
C1_Witness ==
    /\ outcome = "returned"
    /\ cost_matrix.nrows = 3 /\ cost_matrix.ncols = 3
    /\ LET g == linear_sum_assignment_greedy(cost_matrix)
       IN  TotalCost(cost_matrix, [k \in 1..3 |-> <<g.row_ind[k], g.col_ind[k]>>])
               > TotalCost(cost_matrix, allocation)

(***************************************************************************)
(* C2 as stated: with unique faculty names and any courses list, a         *)
(* returned run never gives one section label to two faculty nor two       *)
(* sections to one faculty, and assigns exactly min(F,S) pairs; with one   *)
(* faculty and one course of two sections, one section is assigned and     *)
(* the other is unallotted.                                                *)
(***************************************************************************)
C2_Original == (outcome = "returned" /\ UniqueNames) => C2_Body

(***************************************************************************)
(* C2 amended: the same, for faculties lists with unique names and courses *)
(* lists with unique codes.                                                *)
(***************************************************************************)
C2_Feasible == (outcome = "returned" /\ UniqueNames /\ UniqueCodes) => C2_Body

\* One faculty, one course with sections = 2: one assigned, one unallotted.
C2_Witness ==
    /\ outcome = "returned"
    /\ NumFaculty = 1
    /\ Len(courses) = 1
    /\ Requested(heap[courses[1]]) = 2
    /\ Cardinality(DOMAIN LastResult.allocations) = 1
    /\ Len(LastResult.unallotted_sections) = 1

(***************************************************************************)
(* C3 as stated: the columns in the allocation and the unassigned list are *)
(* disjoint and together are all the columns; with unique faculty names    *)
(* every section label is exactly once either a value of the allocations   *)
(* mapping or an entry of the unallotted list.                             *)
(***************************************************************************)
C3_Original ==
    outcome = "returned" => (C3_Indices /\ (UniqueNames => C3_Labels))

(***************************************************************************)
(* C3 amended: the statement about the columns as it stands; the statement *)
(* about the labels for unique faculty names and unique course codes.      *)
(***************************************************************************)
C3_Partition ==
    outcome = "returned" =>
        (C3_Indices /\ ((UniqueNames /\ UniqueCodes) => C3_Labels))

\* More sections than faculty: some are assigned and some are unallotted.
C3_Witness ==
    /\ outcome = "returned"
    /\ UniqueNames
    /\ UniqueCodes
    /\ NumFaculty = 2
    /\ NumSectionsExpanded >= 3
    /\ Len(LastResult.unallotted_sections) >= 1
    /\ Cardinality(DOMAIN LastResult.allocations) = 2

(***************************************************************************)
(* C4: for courses with codes and positive (or missing) section counts,    *)
(* expand_courses yields sum(sections) entries, grouped by course in input *)
(* order and by ascending index 1..k, entry i of course c carrying         *)
(* course_code c, label c-S<i> and the parent's type; labels are pairwise  *)
(* distinct, and a second expansion of the same list yields the same       *)
(* sequence.                                                               *)
(***************************************************************************)
C4_Expansion ==
    (outcome # "none" /\ WellFormedCourses) =>
        /\ NumSectionsExpanded = Offset(Len(courses) + 1)
        /\ \A c \in DOMAIN courses : \A i \in 1..Requested(heap[courses[c]]) :
              LET e == heap[expanded_courses[Offset(c) + i]]
                  parent == heap[courses[c]]
              IN  /\ e["course_code"] = parent["code"]
                  /\ e["code"] = parent["code"] \o "-S" \o ToString(i)
                  /\ e["section"] = i
                  /\ "type" \in DOMAIN parent =>
                        ("type" \in DOMAIN e /\ e["type"] = parent["type"])
        /\ \A a, b \in 1..NumSectionsExpanded : a # b => LabelAt(a) # LabelAt(b)
        /\ Len(results) >= 2 => results[1].sections = results[2].sections

\* Two courses, one of them with two sections, expanded twice.
C4_Witness ==
    /\ Len(results) >= 2
    /\ Len(courses) = 2
    /\ NumSectionsExpanded >= 3
    /\ \E c \in DOMAIN courses : "sections" \notin DOMAIN heap[courses[c]]

(***************************************************************************)
(* C5: a run on an input holding a malformed record (sections present but  *)
(* not positive, code or type missing, negative quota) ends in             *)
(* InvalidInputError before any cost cell is computed and returns nothing. *)
(***************************************************************************)
C5_MalformedRejected ==
    (outcome # "none" /\ Malformed) =>
        /\ outcome = "InvalidInputError"
        /\ cells_computed = 0
        /\ results = <<>>

(***************************************************************************)
(* C6: for faculty records of the data model and non-negative weights,     *)
(* every cost computed by compute_cost is non-negative.                    *)
(***************************************************************************)
C6_NonNegative ==
    outcome = "returned" =>
        \A i \in 1..cost_matrix.nrows : \A j \in 1..cost_matrix.ncols :
            cost_matrix.data[i][j] >= 0

(***************************************************************************)
(* C7 as stated: two faculty, one single-section course, A has it at rank  *)
(* 1 with full remaining quota, B has no entry for it: the section goes to *)
(* A and nothing is unallotted, whatever the other fields are.             *)
(***************************************************************************)
C7_Original ==
    (outcome = "returned" /\ C7_Scenario) =>
        /\ LastResult.allocations = ("A" :> "C1-S1")
        /\ LastResult.unallotted_sections = <<>>

(***************************************************************************)
(* C7 amended: in that scenario the section goes to A provided A is below  *)
(* the semester limit for the section's type, A has taught the course at   *)
(* most 17 times, and B's remaining quotas do not exceed the limits.       *)
(***************************************************************************)
C7_Amended ==
    (/\ outcome = "returned"
     /\ C7_Scenario
     /\ ~AtLimit(faculties[1], heap[courses[1]]["type"])
     /\ DictGet(faculties[1].history, "C1", 0) <= 17
     /\ faculties[2].courses_left <= limits.max_courses
     /\ faculties[2].ug_left <= limits.max_ug) =>
        /\ LastResult.allocations = ("A" :> "C1-S1")
        /\ LastResult.unallotted_sections = <<>>

\* The scenario with B otherwise at least as attractive as A.
C7_Witness ==
    /\ outcome = "returned"
    /\ C7_Scenario
    /\ heap[courses[1]]["type"] = "UG"
    /\ faculties[1].current_semester_ug = 0
    /\ faculties[1].history = ("C1" :> 2)
    /\ faculties[1].timestamp = TsDen
    /\ faculties[2].courses_left = limits.max_courses
    /\ faculties[2].history = <<>>
    /\ faculties[2].timestamp = 0
    /\ LastResult.allocations = ("A" :> "C1-S1")

(***************************************************************************)
(* C8: two faculty identical but for their preference entry for the        *)
(* section's course differ in cost exactly by the difference of the        *)
(* preference costs (0 for rank 1, 10 for rank 2, 20 for rank 3, 30 for    *)
(* any other rank, 100 for no entry), so that                              *)
(* cost(rank 1) <= cost(rank 2) <= cost(rank 3) < cost(no entry).          *)
(***************************************************************************)
C8_PreferenceOrder ==
    outcome = "returned" =>
        LET p1 == faculties[1].preferences
            p2 == faculties[2].preferences
            c1 == cost_matrix.data[1][1]
            c2 == cost_matrix.data[2][1]
        IN  /\ c1 - c2 = TsDen * (PrefTable(p1, "C1") - PrefTable(p2, "C1"))
            /\ (p1 = ("C1" :> 1) /\ p2 = ("C1" :> 2)) => c1 <= c2
            /\ (p1 = ("C1" :> 2) /\ p2 = ("C1" :> 3)) => c1 <= c2
            /\ (p1 = ("C1" :> 3) /\ p2 = <<>>) => c1 < c2

\* Rank 3 against no entry.
C8_Witness ==
    /\ outcome = "returned"
    /\ faculties[1].preferences = ("C1" :> 3)
    /\ faculties[2].preferences = <<>>
    /\ cost_matrix.data[2][1] - cost_matrix.data[1][1] = TsDen * 80

(***************************************************************************)
(* C9: a faculty at or above the semester limit for the section's type has *)
(* 1000 added to the cost and a faculty below it has nothing added; with   *)
(* one UG section and two faculty, one at the limit and the other below it *)
(* with a lower sum of the other four components, the section goes to the  *)
(* faculty below the limit.                                                *)
(***************************************************************************)
C9_SemesterLimit ==
    outcome = "returned" =>
        LET sec == heap[expanded_courses[1]]
        IN  /\ \A i \in 1..2 :
                  cost_matrix.data[i][1] =
                      OtherFour(faculties[i], sec)
                      + (IF AtLimit(faculties[i], sec["type"]) THEN TsDen * 1000 ELSE 0)
            /\ \A i, k \in 1..2 :
                  (/\ sec["type"] = "UG"
                   /\ AtLimit(faculties[i], "UG")
                   /\ ~AtLimit(faculties[k], "UG")
                   /\ OtherFour(faculties[k], sec) < OtherFour(faculties[i], sec)) =>
                      LastResult.allocations = (faculties[k].name :> "C1-S1")

\* A is exactly at the UG limit, B is below it with lower other costs.
C9_Witness ==
    /\ outcome = "returned"
    /\ heap[expanded_courses[1]]["type"] = "UG"
    /\ faculties[1].current_semester_ug = limits.ug_semester
    /\ faculties[2].current_semester_ug < limits.ug_semester
    /\ OtherFour(faculties[2], heap[expanded_courses[1]])
           < OtherFour(faculties[1], heap[expanded_courses[1]])
    /\ LastResult.allocations = ("B" :> "C1-S1")

(***************************************************************************)
(* C10: a run leaves the caller's faculties list and courses list and      *)
(* every course requirement dict unchanged; the expanded sections of a     *)
(* course keep their own code and section fields; two successive runs on   *)
(* the same inputs return the same allocation and unallotted list.         *)
(***************************************************************************)
C10_Frame == [][C10_InputsUnchanged]_vars /\ []C10_RunsAgree

\* Two completed runs on a course with two sections, with an assignment.
C10_Witness ==
    /\ Len(results) >= 2
    /\ \E c \in DOMAIN courses : Requested(heap[courses[c]]) = 2
    /\ DOMAIN results[2].allocations # {}
    /\ results[2].unallotted_sections # <<>>

=============================================================================
